---- MODULE Spec2Model ----
(***************************************************************************)
(* Aeternus: the note collection held in React state, the debounced save   *)
(* engine (updateNote / writeFileToDisk), the vault (a directory of        *)
(* frontmatter-tagged Markdown files), the vault load/merge and the link   *)
(* extraction of the graph view.                                           *)
(*                                                                         *)
(* A note body is modelled by the sequence of the texts of its [[..]]      *)
(* markers, in order of occurrence; the text between markers is not        *)
(* represented.  Titles are bracket-free and "$"-free strings.             *)
(***************************************************************************)
EXTENDS Integers, Sequences, FiniteSets, TLC

(***************************************************************************)
(* JavaScript values                                                       *)
(***************************************************************************)
Null == "<null>"
Undefined == "<undefined>"

\* JS truthiness of a value that is a string, null or undefined
Truthy(v) == v \notin {"", Null, Undefined}

(***************************************************************************)
(* Bounds and input sets                                                   *)
(***************************************************************************)
\* writeFileToDisk calls that may be in flight at the same time
MaxInflight == 2
\* largest value of the millisecond clock read by getISODate
MaxClock == 1
\* user operations (calls of handlers) in one behaviour
MaxOps == 3
\* loadFromVault calls whose result has not been applied yet
MaxLoads == 2
\* createNote and deleteNote calls in one behaviour of the tree environment
MaxTreeOps == 5
\* the nesting limit of createNote
MaxDepth == 3

NoteIds == {"n1", "n2", "n3"}
\* the note shown in the editor
ActiveIds == {"n1"}
\* the notes of the save engine
SaveIds == {"n1", "n2"}
TitleSet == {"A", "a", "B", ""}
\* titles typed in the save engine
SaveTitles == {"A", "B"}
\* bodies a user may type: no marker, [[A]], [[a]]
ContentSet == {<<>>, <<"A">>, <<"a">>}

(***************************************************************************)
(* Helper functions of the source                                          *)
(***************************************************************************)
\* the template `${baseTitle} ${counter}` of createNote, and the same text
\* with another separator; the counter 0 stands for the bare title
Numbered(baseTitle, sep, counter) ==
    IF counter = 0 THEN baseTitle ELSE baseTitle \o sep \o ToString(counter)

\* the title createNote uses when none is given
DefaultTitle == "Untitled Idea"

\* titles createNote may be asked for, and the counters it can reach
CreateBases == {DefaultTitle, "Untitled_Idea", "A", "a"}
Counters == 1..(MaxOps + MaxTreeOps + 2)
NumberedTitles == {Numbered(b, sep, k) : b \in CreateBases, sep \in {" ", "_"}, k \in Counters}

\* the base, separator and counter of a numbered title
Parts(s) ==
    CHOOSE p \in CreateBases \X {" ", "_"} \X Counters : Numbered(p[1], p[2], p[3]) = s

\* toLowerCase on the strings without a counter
LowerPlain(s) ==
    CASE s = "A" -> "a"
      [] s = "B" -> "b"
      [] s = "C" -> "c"
      [] s = "Aeternus Manifesto" -> "aeternus manifesto"
      [] s = "Aeternus_Manifesto" -> "aeternus_manifesto"
      [] s = "Double Brackets" -> "double brackets"
      [] s = "Untitled Idea" -> "untitled idea"
      [] s = "Untitled_Idea" -> "untitled_idea"
      [] OTHER -> s

\* toLowerCase on the numbered titles: the counter and the separator have
\* no upper case
LowerNumbered ==
    [s \in NumberedTitles |->
        Numbered(LowerPlain(Parts(s)[1]), Parts(s)[2], Parts(s)[3])]

\* String.prototype.toLowerCase on the strings of the model
toLowerCase(s) ==
    IF s \in NumberedTitles THEN LowerNumbered[s] ELSE LowerPlain(s)

\* the replacement on the strings without a counter
SafePlain(title) ==
    CASE title = "Aeternus Manifesto" -> "Aeternus_Manifesto"
      [] title = "Untitled Idea" -> "Untitled_Idea"
      [] OTHER -> title

\* the replacement on the numbered titles: the separator becomes "_"
SafeNumbered ==
    [s \in NumberedTitles |-> Numbered(SafePlain(Parts(s)[1]), "_", Parts(s)[3])]

\* title.replace(/[^a-z0-9..]/gi, '_'): the blanks are the only characters
\* outside the class among the strings of the model
SafeChars(title) ==
    IF title \in NumberedTitles THEN SafeNumbered[title] ELSE SafePlain(title)

\* getFilename: every character outside [a-z0-9 and accented Latin] (matched
\* case-insensitively) becomes "_", the result is lowercased, the empty
\* result becomes "untitled"; ".md" is appended.
getFilename(title) ==
    IF toLowerCase(SafeChars(title)) = "" THEN "untitled.md"
    ELSE toLowerCase(SafeChars(title)) \o ".md"

\* the titles createNote can give to untitled notes of the vault environments
CreatedTitles == {Numbered(DefaultTitle, " ", k) : k \in 0..MaxOps}

FileNames == {getFilename(t) : t \in TitleSet \cup {"C"} \cup CreatedTitles}

NoFile == [fm |-> FALSE, absent |-> TRUE]

\* stringifyFrontmatter: the text blob, kept as the value of each field line
\* and the body
stringifyFrontmatter(note) ==
    [fm |-> TRUE, absent |-> FALSE,
     id |-> note.id,
     title |-> note.title,
     created |-> note.createdAt,
     updated |-> note.updatedAt,
     parentId |-> IF Truthy(note.parentId) THEN note.parentId ELSE "null",
     isFavorite |-> IF note.isFavorite THEN "true" ELSE "false",
     body |-> note.content]

(***************************************************************************)
(* Sequence helpers (Array.prototype.find / findIndex / map / filter)      *)
(***************************************************************************)
\* findIndex(e => e.id === id): index of the first note with that id, 0 if none
FindIndexById(ns, id) ==
    IF \E i \in 1..Len(ns) : ns[i].id = id
    THEN CHOOSE i \in 1..Len(ns) : ns[i].id = id /\ \A j \in 1..(i-1) : ns[j].id # id
    ELSE 0

HasNote(ns, id) == FindIndexById(ns, id) # 0
NoteOf(ns, id) == ns[FindIndexById(ns, id)]

\* the notes of a collection, and their identifiers
Range(seq) == {seq[i] : i \in DOMAIN seq}

IdsOf(ns) == {ns[i].id : i \in DOMAIN ns}

(***************************************************************************)
(* State                                                                   *)
(***************************************************************************)
VARIABLES
    notes,        \* useState<Note[]>: the in-memory collection, in array order
    vaultHandle,  \* useState: TRUE when a directory handle is set
    vaultError,   \* useState: "none" or the kind of error shown
    timers,       \* pending setTimeout callbacks: [id, note, cur]; cur is TRUE
                  \* when saveTimeoutRef.current[id] holds this timer's handle
    writes,       \* writeFileToDisk calls in flight, in the order issued
    disk,         \* the vault directory: file name -> text blob or NoFile
    now,          \* the clock read by getISODate
    loads,        \* loadFromVault calls whose reads have resolved
    linksRef,     \* GraphView: linksRef.current
    ioFailed,     \* history: some removeEntry or write of the vault has failed
    lastOp,       \* history: the operation that produced this state
    ops,          \* history: the number of user operations so far
    burst,        \* history: per note, the run of typed body changes under way
    unwritten,    \* history: per note, a typed body change not yet handed to a write
    merged,       \* history: the batch of the last merge, while notes is as it left it
    codec,        \* the text blob and the decode result of the codec under test
    nodesRef,     \* GraphView: nodesRef.current
    dimensions,   \* GraphView, useState: the size of the viewport
    restore,      \* restoreHandle: its position, and the permission of the stored handle
    walk,         \* a loop over parent links under way: its position and locals
    issued        \* history: per note, the snapshot of the last write issued

vars == <<notes, vaultHandle, vaultError, timers, writes, disk, now, loads, linksRef,
          ioFailed, lastOp, ops, burst, unwritten, merged, codec,
          nodesRef, dimensions, restore, walk, issued>>

NoBurst == [len |-> 0, writes |-> 0, ok |-> TRUE]
NoBatch == <<"none">>
NoCodec == [phase |-> "none"]
\* no restored handle: the handle in use was picked, and granted, by the user
NoRestore == [pc |-> "done", perm |-> "granted", verified |-> TRUE]
NoWalk == [pc |-> "idle"]

(***************************************************************************)
(* Timers and writes                                                       *)
(***************************************************************************)
\* clearTimeout(saveTimeoutRef.current[id]): cancels the timer the ref holds
\* (a no-op when that timer has fired or the ref is empty)
ClearTimeout(ts, id) == {t \in ts : ~(t.id = id /\ t.cur)}

\* saveTimeoutRef.current[id] = setTimeout(() => writeFileToDisk(note), 1000)
SetTimeout(ts, id, note) ==
    {[t EXCEPT !.cur = (t.cur /\ t.id # id)] : t \in ts}
        \cup {[id |-> id, note |-> note, cur |-> TRUE]}

PendingFor(id) == {t \in timers : t.id = id}

\* the ids whose pending timer is in ts and is gone, unfired, from ts2
Cancelled(ts, ts2) ==
    {t.id : t \in {u \in ts : u \notin ts2 /\ [u EXCEPT !.cur = FALSE] \notin ts2}}

\* the first step of writeFileToDisk(note): the old file is removed first
\* when the note records a last saved title different from its title
FirstStep(note) ==
    IF Truthy(note.lastSavedTitle) /\ note.lastSavedTitle # note.title
    THEN "remove" ELSE "write"

\* a call of writeFileToDisk(note): returns at once without a vault handle
StartWrite(ws, vh, note) ==
    IF ~vh THEN ws
    ELSE Append(ws, [note |-> note, pc |-> FirstStep(note), removed |-> FALSE])

\* history of writeFileToDisk(note): the snapshot of the call replaces the
\* one recorded for the same note
Issue(is, vh, note) ==
    IF ~vh THEN is
    ELSE {e \in is : e.id # note.id} \cup {[id |-> note.id, note |-> note]}

RemoveAt(s, k) == [i \in 1..(Len(s) - 1) |-> IF i < k THEN s[i] ELSE s[i + 1]]

(***************************************************************************)
(* updateNote                                                              *)
(***************************************************************************)
\* faulty variant: updateNote without its first statement
EntryClear_Skipped(ts, id) == ts

\* the first statement of updateNote
EntryClear(ts, id) == ClearTimeout(ts, id)

\* faulty variant: a title change is debounced like a body change
SaveDecision_TitleDebounced(vh, forceSave, metaChanged, titleChanged, contentChanged) ==
    IF ~vh THEN "none"
    ELSE IF forceSave \/ metaChanged THEN "write"
    ELSE IF titleChanged \/ contentChanged THEN "debounce"
    ELSE "none"

\* faulty variant: forceSave is looked at after the title and body tests
SaveDecision_ForceLast(vh, forceSave, metaChanged, titleChanged, contentChanged) ==
    IF ~vh THEN "none"
    ELSE IF titleChanged THEN "none"
    ELSE IF contentChanged THEN "debounce"
    ELSE IF forceSave \/ metaChanged THEN "write"
    ELSE "none"

\* the branch taken by the save logic of updateNote
SaveDecision(vh, forceSave, metaChanged, titleChanged, contentChanged) ==
    IF ~vh THEN "none"
    ELSE IF forceSave \/ metaChanged THEN "write"
    ELSE IF titleChanged THEN "none"
    ELSE IF contentChanged THEN "debounce"
    ELSE "none"

\* n.content.match(new RegExp(`\[\[${escapedOldTitle}\]\]`, 'g'))
MatchesLink(content, oldTitle) == \E k \in 1..Len(content) : content[k] = oldTitle

\* n.content.replace(regex, `[[${updatedNote.title}]]`)
ReplaceLink(content, oldTitle, newTitle) ==
    [k \in 1..Len(content) |-> IF content[k] = oldTitle THEN newTitle ELSE content[k]]

\* whether the map of updateNote rewrites note n
Refactors(n, id, titleChanged, oldTitle, newTitle) ==
    /\ n.id # id
    /\ titleChanged
    /\ Truthy(oldTitle) /\ Truthy(newTitle)
    /\ MatchesLink(n.content, oldTitle)

\* the array returned by the updater of updateNote
MapNotes(prev, id, updatedNote, titleChanged, oldTitle, t) ==
    [k \in 1..Len(prev) |->
        IF prev[k].id = id THEN updatedNote
        ELSE IF Refactors(prev[k], id, titleChanged, oldTitle, updatedNote.title)
        THEN [prev[k] EXCEPT !.content = ReplaceLink(@, oldTitle, updatedNote.title),
                             !.updatedAt = t]
        ELSE prev[k]]

\* the timer of one rewritten note
RefactorTimer(ts, vh, n) ==
    IF vh THEN SetTimeout(ClearTimeout(ts, n.id), n.id, n) ELSE ts

\* the timers after the map has visited prev[k..], next being the new array
RECURSIVE RefactorTimers(_, _, _, _, _, _, _, _)
RefactorTimers(ts, vh, prev, next, k, id, titleChanged, oldTitle) ==
    IF k > Len(prev) THEN ts
    ELSE RefactorTimers(
            IF Refactors(prev[k], id, titleChanged, oldTitle, NoteOf(next, id).title)
            THEN RefactorTimer(ts, vh, next[k]) ELSE ts,
            vh, prev, next, k + 1, id, titleChanged, oldTitle)

\* {...noteToUpdate, ...updates, updatedAt: getISODate()}
Spread(noteToUpdate, updates, t) ==
    [f \in DOMAIN noteToUpdate |->
        IF f = "updatedAt" THEN t
        ELSE IF f \in DOMAIN updates THEN updates[f]
        ELSE noteToUpdate[f]]

Changed(noteToUpdate, updates, f) ==
    f \in DOMAIN updates /\ updates[f] # noteToUpdate[f]

\* faulty variant: the timer captures the note as it was before the update
TimerSnapshot_Stale(noteToUpdate, updatedNote) == noteToUpdate

\* the snapshot a debounce timer of updateNote captures
TimerSnapshot(noteToUpdate, updatedNote) == updatedNote

\* the effect of updateNote(id, updates, forceSave) on a collection that
\* holds the note
UpdateFound(id, updates, forceSave) ==
    LET cleared == EntryClear(timers, id)
        noteToUpdate == NoteOf(notes, id)
        updatedNote == Spread(noteToUpdate, updates, now)
        titleChanged == Changed(noteToUpdate, updates, "title")
        contentChanged == Changed(noteToUpdate, updates, "content")
        metaChanged == Changed(noteToUpdate, updates, "isFavorite")
        decision == SaveDecision(vaultHandle, forceSave, metaChanged,
                                 titleChanged, contentChanged)
        next == MapNotes(notes, id, updatedNote, titleChanged, noteToUpdate.title, now)
        own == IF decision = "debounce"
               THEN SetTimeout(cleared, id, TimerSnapshot(noteToUpdate, updatedNote))
               ELSE cleared
        rewritten == {notes[k].id : k \in {j \in 1..Len(notes) : next[j] # notes[j]}} \ {id}
    IN  /\ decision = "write" => Len(writes) < MaxInflight
        /\ notes' = next
        /\ writes' = IF decision = "write"
                     THEN StartWrite(writes, vaultHandle, updatedNote) ELSE writes
        /\ issued' = IF decision = "write"
                     THEN Issue(issued, vaultHandle, updatedNote) ELSE issued
        /\ timers' = RefactorTimers(own, vaultHandle, notes, next, 1, id,
                                    titleChanged, noteToUpdate.title)
        /\ burst' = [i \in NoteIds |->
                        IF i = id
                        THEN IF decision = "debounce"
                             THEN IF burst[i].len >= 1 /\ burst[i].writes = 0
                                  THEN [burst[i] EXCEPT !.len = @ + 1]
                                  ELSE [len |-> 1, writes |-> 0, ok |-> TRUE]
                             ELSE NoBurst
                        ELSE IF i \in rewritten THEN NoBurst ELSE burst[i]]
        /\ unwritten' = [i \in NoteIds |->
                        IF i # id THEN unwritten[i]
                        ELSE IF decision = "write" THEN FALSE
                        ELSE IF contentChanged /\ vaultHandle THEN TRUE
                        ELSE unwritten[i]]

UpdateNote(id, updates, forceSave, op) ==
    /\ ops < MaxOps
    /\ ops' = ops + 1
    /\ IF HasNote(notes, id)
       THEN UpdateFound(id, updates, forceSave)
       ELSE /\ timers' = EntryClear(timers, id)
            /\ UNCHANGED <<notes, writes, burst, unwritten, issued>>
    /\ lastOp' = [op |-> op, id |-> id, cancelled |-> Cancelled(timers, timers')]
    /\ merged' = NoBatch
    /\ UNCHANGED <<vaultHandle, vaultError, disk, now, loads, linksRef, ioFailed, codec,
                   nodesRef, dimensions, restore, walk>>

\* Editor, handleTextareaChange: typing in the body (a change event: the
\* value differs from the one shown)
EditContent(id, c) ==
    /\ HasNote(notes, id)
    /\ c # NoteOf(notes, id).content
    /\ UpdateNote(id, [content |-> c], FALSE, "content")

\* Editor, slash commands / checkbox toggles / AI insert: a forced body change
CommitContent(id, c) ==
    /\ HasNote(notes, id)
    /\ UpdateNote(id, [content |-> c], TRUE, "commit")

\* Editor, title input onChange: one keystroke in the title
EditTitle(id, t) ==
    /\ HasNote(notes, id)
    /\ t # NoteOf(notes, id).title
    /\ UpdateNote(id, [title |-> t], FALSE, "title")

\* Editor, onBlur of the title input or of the body
Blur(id) ==
    /\ HasNote(notes, id)
    /\ UpdateNote(id, <<>>, TRUE, "blur")

\* renderTree, chevron button
ToggleExpanded(id) ==
    /\ HasNote(notes, id)
    /\ UpdateNote(id, [expanded |-> ~NoteOf(notes, id).expanded], FALSE, "expanded")

\* renderTree, pin button
ToggleFavorite(id) ==
    /\ HasNote(notes, id)
    /\ UpdateNote(id, [isFavorite |-> ~NoteOf(notes, id).isFavorite], FALSE, "favorite")

(***************************************************************************)
(* Timer expiry and the steps of writeFileToDisk                           *)
(***************************************************************************)
\* a debounce timer expires: its callback calls writeFileToDisk(note)
TimerFire(t) ==
    /\ t \in timers
    /\ vaultHandle => Len(writes) < MaxInflight
    /\ timers' = timers \ {t}
    /\ writes' = StartWrite(writes, vaultHandle, t.note)
    /\ issued' = Issue(issued, vaultHandle, t.note)
    /\ burst' = [burst EXCEPT ![t.id] =
                    IF @.len = 0 THEN @
                    ELSE [@ EXCEPT !.writes = @ + 1,
                                   !.ok = @ /\ HasNote(notes, t.id)
                                            /\ t.note.content = NoteOf(notes, t.id).content]]
    /\ unwritten' = [unwritten EXCEPT ![t.id] = FALSE]
    /\ lastOp' = [op |-> "fire", id |-> t.id, cancelled |-> {}]
    /\ UNCHANGED <<notes, vaultHandle, vaultError, disk, now, loads, linksRef,
                   ioFailed, ops, merged, codec,
                   nodesRef, dimensions, restore, walk>>

\* await vaultHandle.removeEntry(oldFilename): the file is removed, or was
\* not there ("Old file not found")
RemoveOld(k) ==
    /\ k \in 1..Len(writes)
    /\ writes[k].pc = "remove"
    /\ disk' = [disk EXCEPT ![getFilename(writes[k].note.lastSavedTitle)] = NoFile]
    /\ writes' = [writes EXCEPT ![k].pc = "write", ![k].removed = TRUE]
    /\ lastOp' = [op |-> "remove", id |-> writes[k].note.id, cancelled |-> {}]
    /\ UNCHANGED <<notes, vaultHandle, vaultError, timers, now, loads, linksRef,
                   ioFailed, ops, burst, unwritten, merged, codec,
                   nodesRef, dimensions, restore, walk, issued>>

\* removeEntry rejects for a file that exists: caught and logged only
RemoveOldFails(k) ==
    /\ k \in 1..Len(writes)
    /\ writes[k].pc = "remove"
    /\ ~disk[getFilename(writes[k].note.lastSavedTitle)].absent
    /\ writes' = [writes EXCEPT ![k].pc = "write", ![k].removed = TRUE]
    /\ ioFailed' = TRUE
    /\ lastOp' = [op |-> "removeFails", id |-> writes[k].note.id, cancelled |-> {}]
    /\ UNCHANGED <<notes, vaultHandle, vaultError, timers, disk, now, loads, linksRef,
                   ops, burst, unwritten, merged, codec,
                   nodesRef, dimensions, restore, walk, issued>>

\* after the write: the updater of setNotes is queued only when the
\* snapshot's lastSavedTitle differs from its title
AfterWrite(ws, k) ==
    IF ws[k].note.lastSavedTitle # ws[k].note.title
    THEN [ws EXCEPT ![k].pc = "setNotes"]
    ELSE RemoveAt(ws, k)

\* getFileHandle(create) .. createWritable .. write .. close
WriteFile(k) ==
    /\ k \in 1..Len(writes)
    /\ writes[k].pc = "write"
    /\ disk' = [disk EXCEPT ![getFilename(writes[k].note.title)] =
                                stringifyFrontmatter(writes[k].note)]
    /\ writes' = AfterWrite(writes, k)
    /\ lastOp' = [op |-> "write", id |-> writes[k].note.id, cancelled |-> {}]
    /\ UNCHANGED <<notes, vaultHandle, vaultError, timers, now, loads, linksRef,
                   ioFailed, ops, burst, unwritten, merged, codec,
                   nodesRef, dimensions, restore, walk, issued>>

\* faulty variant: the failed write is scheduled again
WriteFails_Retry(k) ==
    /\ k \in 1..Len(writes)
    /\ writes[k].pc = "write"
    /\ writes' = RemoveAt(writes, k)
    /\ timers' = SetTimeout(timers, writes[k].note.id, writes[k].note)
    /\ vaultError' = "save"
    /\ ioFailed' = TRUE
    /\ lastOp' = [op |-> "writeFails", id |-> writes[k].note.id, cancelled |-> {}]
    /\ UNCHANGED <<notes, vaultHandle, disk, now, loads, linksRef,
                   ops, burst, unwritten, merged, codec,
                   nodesRef, dimensions, restore, walk, issued>>

\* one of the awaits of the write rejects: the catch sets the error status
WriteFails(k) ==
    /\ k \in 1..Len(writes)
    /\ writes[k].pc = "write"
    /\ writes' = RemoveAt(writes, k)
    /\ vaultError' = "save"
    /\ ioFailed' = TRUE
    /\ lastOp' = [op |-> "writeFails", id |-> writes[k].note.id, cancelled |-> {}]
    /\ UNCHANGED <<notes, vaultHandle, timers, disk, now, loads, linksRef,
                   ops, burst, unwritten, merged, codec,
                   nodesRef, dimensions, restore, walk, issued>>

\* faulty variant: the note is replaced by the snapshot that was written
SetLastSavedTitle_Stale(prev, note) ==
    [i \in 1..Len(prev) |->
        IF prev[i].id = note.id
        THEN [note EXCEPT !.lastSavedTitle = note.title] ELSE prev[i]]

\* prev.map(n => n.id === note.id ? {...n, lastSavedTitle: note.title} : n)
SetLastSavedTitle(prev, note) ==
    [i \in 1..Len(prev) |->
        IF prev[i].id = note.id
        THEN [prev[i] EXCEPT !.lastSavedTitle = note.title] ELSE prev[i]]

\* the continuation after await writable.close()
WriteDone(k) ==
    /\ k \in 1..Len(writes)
    /\ writes[k].pc = "setNotes"
    /\ notes' = SetLastSavedTitle(notes, writes[k].note)
    /\ writes' = RemoveAt(writes, k)
    /\ merged' = NoBatch
    /\ lastOp' = [op |-> "setNotes", id |-> writes[k].note.id, cancelled |-> {}]
    /\ UNCHANGED <<vaultHandle, vaultError, timers, disk, now, loads, linksRef,
                   ioFailed, ops, burst, unwritten, codec,
                   nodesRef, dimensions, restore, walk, issued>>

\* the millisecond clock advances
Tick ==
    /\ now < MaxClock
    /\ now' = now + 1
    /\ lastOp' = [op |-> "tick", id |-> Null, cancelled |-> {}]
    /\ UNCHANGED <<notes, vaultHandle, vaultError, timers, writes, disk, loads,
                   linksRef, ioFailed, ops, burst, unwritten, merged, codec,
                   nodesRef, dimensions, restore, walk, issued>>

(***************************************************************************)
(* GraphView: link extraction                                              *)
(***************************************************************************)
\* faulty variant: the title is compared with the marker text as written
FindByTitle_Exact(ns, targetTitle) ==
    IF \E i \in 1..Len(ns) : ns[i].title = targetTitle
    THEN CHOOSE i \in 1..Len(ns) :
            /\ ns[i].title = targetTitle
            /\ \A j \in 1..(i - 1) : ns[j].title # targetTitle
    ELSE 0

\* notes.find(n => n.title.toLowerCase() === targetTitle.toLowerCase()):
\* the index of the first match in array order, 0 when there is none
FindByTitle(ns, targetTitle) ==
    IF \E i \in 1..Len(ns) : toLowerCase(ns[i].title) = toLowerCase(targetTitle)
    THEN CHOOSE i \in 1..Len(ns) :
            /\ toLowerCase(ns[i].title) = toLowerCase(targetTitle)
            /\ \A j \in 1..(i - 1) :
                    toLowerCase(ns[j].title) # toLowerCase(targetTitle)
    ELSE 0

\* the while loop over the markers k.. of the source note ns[s]
RECURSIVE LinksOfNote(_, _, _)
LinksOfNote(ns, s, k) ==
    IF k > Len(ns[s].content) THEN <<>>
    ELSE LET target == FindByTitle(ns, ns[s].content[k])
             rest == LinksOfNote(ns, s, k + 1)
         IN  IF target # 0 /\ ns[target].id # ns[s].id
             THEN <<[source |-> ns[s].id, target |-> ns[target].id]>> \o rest
             ELSE rest

\* notes.forEach(sourceNote => ...) from note s on
RECURSIVE ExtractLinks(_, _)
ExtractLinks(ns, s) ==
    IF s > Len(ns) THEN <<>>
    ELSE LinksOfNote(ns, s, 1) \o ExtractLinks(ns, s + 1)

(***************************************************************************)
(* GraphView: nodes.  A node is [id, title, x, y, vx, vy, nan].  Numbers   *)
(* are kept to whole units, products and quotients rounded toward zero.    *)
(* nan says that x, y, vx and vy are NaN: the four become NaN together,    *)
(* because both components of a force are computed from the same distance. *)
(***************************************************************************)
Abs(a) == IF a < 0 THEN -a ELSE a

\* a / b of two numbers, in whole units
Quot(a, b) ==
    IF (a < 0) = (b < 0) THEN Abs(a) \div Abs(b) ELSE -(Abs(a) \div Abs(b))

\* a * q for a fractional constant q = num / den
Times(a, q) == Quot(a * q.num, q.den)

REPULSION == 1500
SPRING_LENGTH == 150
SPRING_STRENGTH == [num |-> 1, den |-> 20]
DAMPING == [num |-> 17, den |-> 20]
CENTER_FORCE == [num |-> 1, den |-> 200]

\* dimensions.width || 800 and dimensions.height || 600
DefaultWidth == 800
DefaultHeight == 600

\* Math.random() yields r / RandomDen for an r below RandomDen
RandomDen == 800

\* currentNodes.find(n => n.id === id): its index, 0 when there is none
FindNode(currentNodes, id) ==
    IF \E i \in 1..Len(currentNodes) : currentNodes[i].id = id
    THEN CHOOSE i \in 1..Len(currentNodes) :
            /\ currentNodes[i].id = id
            /\ \A j \in 1..(i - 1) : currentNodes[j].id # id
    ELSE 0

\* faulty variant: every node is placed anew and at rest
NodeFor_Reset(note, currentNodes, dims, rx, ry) ==
    [id |-> note.id, title |-> note.title,
     x |-> Quot(rx * (IF dims.width # 0 THEN dims.width ELSE DefaultWidth), RandomDen),
     y |-> Quot(ry * (IF dims.height # 0 THEN dims.height ELSE DefaultHeight), RandomDen),
     vx |-> 0, vy |-> 0, nan |-> FALSE]

\* the node built for one note; rx and ry are the two results of Math.random
NodeFor(note, currentNodes, dims, rx, ry) ==
    LET existing == FindNode(currentNodes, note.id)
    IN  IF existing # 0
        THEN [id |-> note.id, title |-> note.title,
              x |-> currentNodes[existing].x, y |-> currentNodes[existing].y,
              vx |-> currentNodes[existing].vx, vy |-> currentNodes[existing].vy,
              nan |-> currentNodes[existing].nan]
        ELSE [id |-> note.id, title |-> note.title,
              x |-> Quot(rx * (IF dims.width # 0 THEN dims.width ELSE DefaultWidth),
                         RandomDen),
              y |-> Quot(ry * (IF dims.height # 0 THEN dims.height ELSE DefaultHeight),
                         RandomDen),
              vx |-> 0, vy |-> 0, nan |-> FALSE]

\* the notes that have no node yet: Math.random is called for these only
NewIndices(ns, currentNodes) ==
    {i \in 1..Len(ns) : FindNode(currentNodes, ns[i].id) = 0}

\* notes.map(note => ...), rnd[i] being the two random results drawn for note i
NewNodes(ns, currentNodes, dims, rnd) ==
    [i \in 1..Len(ns) |->
        IF i \in DOMAIN rnd
        THEN NodeFor(ns[i], currentNodes, dims, rnd[i][1], rnd[i][2])
        ELSE NodeFor(ns[i], currentNodes, dims, 0, 0)]

\* the body of the effect on [notes, dimensions]: nodes and links are rebuilt
Derive(dims, randoms) ==
    /\ \E rnd \in [NewIndices(notes, nodesRef) -> randoms \X randoms] :
            nodesRef' = NewNodes(notes, nodesRef, dims, rnd)
    /\ linksRef' = ExtractLinks(notes, 1)

\* the effect that rebuilds the graph data from the notes
DeriveGraph(randoms) ==
    /\ Derive(dimensions, randoms)
    /\ lastOp' = [op |-> "graph", id |-> Null, cancelled |-> {}]
    /\ UNCHANGED <<notes, vaultHandle, vaultError, timers, writes, disk, now, loads,
                   ioFailed, ops, burst, unwritten, merged, codec,
                   dimensions, restore, walk, issued>>

\* the ResizeObserver callback: setDimensions, and the effect that follows it
Resize(width, height, randoms) ==
    /\ dimensions # [width |-> width, height |-> height]
    /\ dimensions' = [width |-> width, height |-> height]
    /\ Derive(dimensions', randoms)
    /\ lastOp' = [op |-> "resize", id |-> Null, cancelled |-> {}]
    /\ UNCHANGED <<notes, vaultHandle, vaultError, timers, writes, disk, now, loads,
                   ioFailed, ops, burst, unwritten, merged, codec,
                   restore, walk, issued>>

(***************************************************************************)
(* GraphView: animate, the physics step                                    *)
(***************************************************************************)
\* the largest root whose square is still a number of the model
SqrtMax == 46340

\* Math.sqrt(n) in whole units, searched between lo and hi
RECURSIVE SqrtBetween(_, _, _)
SqrtBetween(n, lo, hi) ==
    IF lo >= hi THEN lo
    ELSE LET mid == (lo + hi + 1) \div 2
         IN  IF mid * mid <= n THEN SqrtBetween(n, mid, hi)
             ELSE SqrtBetween(n, lo, mid - 1)

sqrt(n) == SqrtBetween(n, 0, IF n < SqrtMax THEN n ELSE SqrtMax)

NoForce == [fx |-> 0, fy |-> 0, nan |-> FALSE]

AddForce(f, g) == [fx |-> f.fx + g.fx, fy |-> f.fy + g.fy, nan |-> f.nan \/ g.nan]

\* 1. the repulsion of node on account of other
RepulsionOf(node, other) ==
    IF node.id = other.id THEN NoForce
    ELSE IF node.nan \/ other.nan THEN [fx |-> 0, fy |-> 0, nan |-> TRUE]
    ELSE LET dx == node.x - other.x
             dy == node.y - other.y
             distSq == IF dx * dx + dy * dy # 0 THEN dx * dx + dy * dy ELSE 1
             dist == sqrt(distSq)
         IN  [fx |-> Quot(Quot(dx * REPULSION, distSq), dist),
              fy |-> Quot(Quot(dy * REPULSION, distSq), dist),
              nan |-> FALSE]

\* nodes.forEach(other => ...) from other j on
RECURSIVE Repulsion(_, _, _)
Repulsion(nodes, node, j) ==
    IF j > Len(nodes) THEN NoForce
    ELSE AddForce(RepulsionOf(node, nodes[j]), Repulsion(nodes, node, j + 1))

\* 2. the spring of one link on node; dx / dist is 0 / 0 = NaN when the
\* two ends are at the same place
SpringOf(nodes, node, link) ==
    IF link.source # node.id /\ link.target # node.id THEN NoForce
    ELSE LET otherId == IF link.source = node.id THEN link.target ELSE link.source
             other == FindNode(nodes, otherId)
         IN  IF other = 0 THEN NoForce
             ELSE IF node.nan \/ nodes[other].nan
             THEN [fx |-> 0, fy |-> 0, nan |-> TRUE]
             ELSE LET dx == nodes[other].x - node.x
                      dy == nodes[other].y - node.y
                      dist == sqrt(dx * dx + dy * dy)
                      force == Times(dist - SPRING_LENGTH, SPRING_STRENGTH)
                  IN  IF dist = 0 THEN [fx |-> 0, fy |-> 0, nan |-> TRUE]
                      ELSE [fx |-> Quot(dx * force, dist),
                            fy |-> Quot(dy * force, dist),
                            nan |-> FALSE]

\* links.forEach(link => ...) from link k on
RECURSIVE Springs(_, _, _, _)
Springs(nodes, links, node, k) ==
    IF k > Len(links) THEN NoForce
    ELSE AddForce(SpringOf(nodes, node, links[k]), Springs(nodes, links, node, k + 1))

\* 3. center gravity
CenterGravity(node, width, height) ==
    IF node.nan THEN [fx |-> 0, fy |-> 0, nan |-> TRUE]
    ELSE [fx |-> Times(Quot(width, 2) - node.x, CENTER_FORCE),
          fy |-> Times(Quot(height, 2) - node.y, CENTER_FORCE),
          nan |-> FALSE]

\* one pass of the outer forEach: the node as it is after its velocity and
\* position were assigned, the forces taken from nodes as they are now
Moved(nodes, links, width, height, node) ==
    LET f == AddForce(Repulsion(nodes, node, 1),
                      AddForce(Springs(nodes, links, node, 1),
                               CenterGravity(node, width, height)))
        vx == Times(node.vx + f.fx, DAMPING)
        vy == Times(node.vy + f.fy, DAMPING)
        x == node.x + vx
        y == node.y + vy
    IN  IF f.nan
        THEN [id |-> node.id, title |-> node.title,
              x |-> 0, y |-> 0, vx |-> 0, vy |-> 0, nan |-> TRUE]
        ELSE [id |-> node.id, title |-> node.title, x |-> x, y |-> y,
              vx |-> vx + (IF x < 50 THEN 1 ELSE 0)
                        - (IF x > width - 50 THEN 1 ELSE 0),
              vy |-> vy + (IF y < 50 THEN 1 ELSE 0)
                        - (IF y > height - 50 THEN 1 ELSE 0),
              nan |-> FALSE]

\* nodes.forEach(node => ...) from node i on: node i is assigned in place
\* before node i + 1 is looked at
RECURSIVE PhysicsStep(_, _, _, _, _)
PhysicsStep(nodes, links, width, height, i) ==
    IF i > Len(nodes) THEN nodes
    ELSE PhysicsStep([nodes EXCEPT ![i] = Moved(nodes, links, width, height, nodes[i])],
                     links, width, height, i + 1)

\* one animation frame; the canvas has a 2d context
Animate ==
    /\ dimensions.width # 0
    /\ dimensions.height # 0
    /\ nodesRef' = PhysicsStep(nodesRef, linksRef, dimensions.width,
                               dimensions.height, 1)
    /\ ops' = ops + 1
    /\ lastOp' = [op |-> "animate", id |-> Null, cancelled |-> {}]
    /\ UNCHANGED <<notes, vaultHandle, vaultError, timers, writes, disk, now, loads,
                   linksRef, ioFailed, burst, unwritten, merged, codec,
                   dimensions, restore, walk, issued>>

(***************************************************************************)
(* loadFromVault                                                           *)
(***************************************************************************)
JsTrue == "<true>"
JsFalse == "<false>"

\* String.prototype.trim on the strings of the model
trim(v) ==
    CASE v = " A" -> "A"
      [] v = "A " -> "A"
      [] OTHER -> v

\* parseFrontmatter, one field line: the value is trimmed; the literals
\* true, false and null are recognised, anything else is the string
ParseValue(v) ==
    IF trim(v) = "true" THEN JsTrue
    ELSE IF trim(v) = "false" THEN JsFalse
    ELSE IF trim(v) = "null" THEN Null
    ELSE trim(v)

\* parseFrontmatter: a blob without a metadata block is all body
parseFrontmatter(file) ==
    IF ~file.fm
    THEN [meta |-> [id |-> Undefined, title |-> Undefined, createdAt |-> Undefined,
                    updatedAt |-> Undefined,
                    parentId |-> Undefined, isFavorite |-> Undefined],
          content |-> file.body]
    ELSE [meta |-> [id |-> ParseValue(file.id), title |-> ParseValue(file.title),
                    createdAt |-> file.created,
                    updatedAt |-> file.updated,
                    parentId |-> ParseValue(file.parentId),
                    isFavorite |-> ParseValue(file.isFavorite)],
          content |-> file.body]

\* entry.name.replace(/\.md$/i, '')
Basename(name) ==
    CASE name = "a.md" -> "a"
      [] name = "b.md" -> "b"
      [] name = "c.md" -> "c"
      [] name = "untitled.md" -> "untitled"
      [] OTHER -> name

\* the note pushed to newNotes for one file
NoteFromFile(name, file) ==
    LET p == parseFrontmatter(file)
        noteTitle == IF Truthy(p.meta.title) THEN p.meta.title ELSE Basename(name)
    IN  [id |-> IF Truthy(p.meta.id) THEN p.meta.id ELSE name,
         title |-> noteTitle,
         content |-> p.content,
         createdAt |-> IF file.fm THEN p.meta.createdAt ELSE file.lastModified,
         updatedAt |-> IF file.fm THEN p.meta.updatedAt ELSE file.lastModified,
         parentId |-> IF Truthy(p.meta.parentId) THEN p.meta.parentId ELSE Null,
         expanded |-> TRUE,
         lastSavedTitle |-> noteTitle,
         isFavorite |-> (p.meta.isFavorite = JsTrue)]

\* n is put behind every element that is at least as recent
InsertByUpdated(sorted, n) ==
    LET before == Cardinality({i \in 1..Len(sorted) : sorted[i].updatedAt >= n.updatedAt})
    IN  [i \in 1..(Len(sorted) + 1) |->
            IF i <= before THEN sorted[i]
            ELSE IF i = before + 1 THEN n
            ELSE sorted[i - 1]]

\* ns.sort((a, b) => time(b.updatedAt) - time(a.updatedAt)): newest first,
\* equal elements keep their order
RECURSIVE SortByUpdated(_, _)
SortByUpdated(ns, k) ==
    IF k = 0 THEN <<>>
    ELSE InsertByUpdated(SortByUpdated(ns, k - 1), ns[k])

\* combined.findIndex(e => e.title === n.title && !e.parentId)
FindRootByTitle(combined, title) ==
    IF \E i \in 1..Len(combined) :
            combined[i].title = title /\ ~Truthy(combined[i].parentId)
    THEN CHOOSE i \in 1..Len(combined) :
            /\ combined[i].title = title /\ ~Truthy(combined[i].parentId)
            /\ \A j \in 1..(i - 1) :
                    ~(combined[j].title = title /\ ~Truthy(combined[j].parentId))
    ELSE 0

\* {...n, id: combined[existingByTitle].id}
Adopt(e, n) == [n EXCEPT !.id = e.id]

\* faulty variant: a note found by id is overwritten by the loaded note
MergeOne_Overwrite(combined, n) ==
    IF FindIndexById(combined, n.id) # 0
    THEN [combined EXCEPT ![FindIndexById(combined, n.id)] = n]
    ELSE LET t == FindRootByTitle(combined, n.title)
         IN  IF t # 0 /\ ~Truthy(combined[t].lastSavedTitle)
             THEN [combined EXCEPT ![t] = Adopt(combined[t], n)]
             ELSE Append(combined, n)

\* the body of newNotes.forEach in the merge branch
MergeOne(combined, n) ==
    IF FindIndexById(combined, n.id) # 0 THEN combined
    ELSE LET t == FindRootByTitle(combined, n.title)
         IN  IF t # 0 /\ ~Truthy(combined[t].lastSavedTitle)
             THEN [combined EXCEPT ![t] = Adopt(combined[t], n)]
             ELSE Append(combined, n)

\* faulty variant: only the first note of the batch is merged
MergeAll_FirstOnly(combined, newNotes, k) ==
    IF k > Len(newNotes) THEN combined ELSE MergeOne(combined, newNotes[k])

RECURSIVE MergeAll(_, _, _)
MergeAll(combined, newNotes, k) ==
    IF k > Len(newNotes) THEN combined
    ELSE MergeAll(MergeOne(combined, newNotes[k]), newNotes, k + 1)

\* the updater passed to setNotes in the merge branch
Merge(prev, newNotes) ==
    LET combined == MergeAll(prev, newNotes, 1)
    IN  SortByUpdated(combined, Len(combined))

INITIAL_NOTE ==
    [id |-> "manifesto", title |-> "Aeternus Manifesto",
     content |-> <<"Double Brackets">>, createdAt |-> 0, updatedAt |-> 0,
     parentId |-> Null,
     expanded |-> TRUE, lastSavedTitle |-> "Aeternus Manifesto", isFavorite |-> FALSE]

\* the orders in which the files of the vault may be listed and read
Orders(S) ==
    {o \in [1..Cardinality(S) -> S] : \A i, j \in DOMAIN o : i # j => o[i] # o[j]}

\* the files of the vault
Present == {f \in FileNames : ~disk[f].absent}

\* faulty variant: one failing read makes the whole batch empty
ReadVault_AllOrNothing(o, fs) ==
    IF Len(o) < Cardinality({f \in FileNames : ~fs[f].absent}) THEN <<>>
    ELSE LET newNotes == [i \in DOMAIN o |-> NoteFromFile(o[i], fs[o[i]])]
         IN  SortByUpdated(newNotes, Len(newNotes))

\* the reads of loadFromVault: newNotes, sorted, for the files of fs whose
\* read and decode succeeded, in the order o of their pushes
ReadVault(o, fs) ==
    LET newNotes == [i \in DOMAIN o |-> NoteFromFile(o[i], fs[o[i]])]
    IN  SortByUpdated(newNotes, Len(newNotes))

\* loadFromVault up to the end of its reads: the files of skipped throw in
\* getFile / text and are left out with a warning
LoadStart(replace, op) ==
    /\ ops < MaxOps
    /\ Len(loads) < MaxLoads
    /\ \E skipped \in SUBSET Present :
         \E o \in Orders(Present \ skipped) :
            loads' = Append(loads, [newNotes |-> ReadVault(o, disk),
                                    replace |-> replace, skipped |-> skipped])
    /\ ops' = ops + 1
    /\ lastOp' = [op |-> op, id |-> Null, cancelled |-> {}]

\* loadFromVault rejects while the directory is listed: the catch sets the
\* error status and nothing else
LoadFails ==
    /\ vaultHandle
    /\ ops < MaxOps
    /\ ops' = ops + 1
    /\ vaultError' = "load"
    /\ lastOp' = [op |-> "loadFails", id |-> Null, cancelled |-> {}]
    /\ UNCHANGED <<notes, vaultHandle, timers, writes, disk, now, loads, linksRef,
                   ioFailed, burst, unwritten, merged, codec,
                   nodesRef, dimensions, restore, walk, issued>>

\* handleRefreshVault
HandleRefreshVault ==
    /\ vaultHandle
    /\ LoadStart(FALSE, "refresh")
    /\ UNCHANGED <<notes, vaultHandle, vaultError, timers, writes, disk, now,
                   linksRef, ioFailed, burst, unwritten, merged, codec,
                   nodesRef, dimensions, restore, walk, issued>>

\* connectVault(forceNew) with the permission granted
ConnectVault(forceNew) ==
    /\ vaultHandle' = TRUE
    /\ vaultError' = "none"
    /\ LoadStart(forceNew, "connect")
    /\ UNCHANGED <<notes, timers, writes, disk, now, linksRef, ioFailed, burst,
                   unwritten, merged, codec,
                   nodesRef, dimensions, restore, walk, issued>>

\* restoreHandle: getStoredHandle returns the stored handle, which is set
\* at once
RestoreGet ==
    /\ restore.pc = "start"
    /\ vaultHandle' = TRUE
    /\ restore' = [restore EXCEPT !.pc = "query"]
    /\ lastOp' = [op |-> "restoreGet", id |-> Null, cancelled |-> {}]
    /\ UNCHANGED <<notes, vaultError, timers, writes, disk, now, loads, linksRef,
                   ioFailed, ops, burst, unwritten, merged, codec,
                   nodesRef, dimensions, walk, issued>>

\* restoreHandle: queryPermission answers granted and loadFromVault(handle)
\* is called
RestoreGranted ==
    /\ restore.pc = "query"
    /\ restore.perm = "granted"
    /\ restore' = [restore EXCEPT !.pc = "done", !.verified = TRUE]
    /\ LoadStart(FALSE, "restore")
    /\ UNCHANGED <<notes, vaultHandle, vaultError, timers, writes, disk, now,
                   linksRef, ioFailed, burst, unwritten, merged, codec,
                   nodesRef, dimensions, walk, issued>>

\* restoreHandle: queryPermission answers anything else
RestoreDenied ==
    /\ restore.pc = "query"
    /\ restore.perm # "granted"
    /\ restore' = [restore EXCEPT !.pc = "done"]
    /\ vaultError' = "permission"
    /\ lastOp' = [op |-> "restoreDenied", id |-> Null, cancelled |-> {}]
    /\ UNCHANGED <<notes, vaultHandle, timers, writes, disk, now, loads, linksRef,
                   ioFailed, ops, burst, unwritten, merged, codec,
                   nodesRef, dimensions, walk, issued>>

\* faulty variant: the batch is put in front of the previous collection
ReplaceResult_KeepsPrev(prev, newNotes) ==
    IF Len(newNotes) > 0 THEN newNotes \o prev ELSE <<INITIAL_NOTE>>

\* the value given to setNotes in the replace branch
ReplaceResult(prev, newNotes) ==
    IF Len(newNotes) > 0 THEN newNotes ELSE <<INITIAL_NOTE>>

\* the replace branch: the timers the ref holds are cleared, the collection
\* becomes the batch, or the manifesto for an empty vault
LoadReplace(k) ==
    /\ k \in 1..Len(loads)
    /\ loads[k].replace
    /\ timers' = {t \in timers : ~t.cur}
    /\ notes' = ReplaceResult(notes, loads[k].newNotes)
    /\ loads' = RemoveAt(loads, k)
    /\ merged' = NoBatch
    /\ burst' = [i \in NoteIds |-> NoBurst]
    /\ unwritten' = [i \in NoteIds |-> FALSE]
    /\ lastOp' = [op |-> "replace", id |-> Null, cancelled |-> Cancelled(timers, timers')]
    /\ UNCHANGED <<vaultHandle, vaultError, writes, disk, now, linksRef, ioFailed, ops, codec,
                   nodesRef, dimensions, restore, walk, issued>>

\* the merge branch: nothing is done for an empty batch
LoadMerge(k) ==
    /\ k \in 1..Len(loads)
    /\ ~loads[k].replace
    /\ notes' = IF Len(loads[k].newNotes) > 0 THEN Merge(notes, loads[k].newNotes)
                ELSE notes
    /\ loads' = RemoveAt(loads, k)
    /\ merged' = <<"merge", loads[k].newNotes, loads[k].skipped>>
    /\ lastOp' = [op |-> "merge", id |-> Null, cancelled |-> {}]
    /\ UNCHANGED <<vaultHandle, vaultError, timers, writes, disk, now, linksRef,
                   ioFailed, ops, burst, unwritten, codec,
                   nodesRef, dimensions, restore, walk, issued>>

(***************************************************************************)
(* createNote and deleteNote                                               *)
(***************************************************************************)
\* the while loop of createNote: the parent links followed from currentId
\* until a note without a parent, or an id without a note, is reached
RECURSIVE ParentDepth(_, _, _)
ParentDepth(ns, currentId, depth) ==
    IF ~Truthy(currentId) THEN depth
    ELSE IF HasNote(ns, currentId) /\ Truthy(NoteOf(ns, currentId).parentId)
         THEN ParentDepth(ns, NoteOf(ns, currentId).parentId, depth + 1)
         ELSE depth

\* faulty variant: the limit is tested one level too late
DepthCapReached_Late(depth) == depth > MaxDepth

\* if (depth >= 3) targetParentId = null
DepthCapReached(depth) == depth >= MaxDepth

TargetParentId(ns, parentId) ==
    IF Truthy(parentId) /\ DepthCapReached(ParentDepth(ns, parentId, 0))
    THEN Null ELSE parentId

\* faulty variant: the titles are compared as they are written
TitleTaken_CaseSensitive(ns, uniqueTitle) ==
    \E i \in 1..Len(ns) : ns[i].title = uniqueTitle

\* notes.some(n => n.title.toLowerCase() === uniqueTitle.toLowerCase())
TitleTaken(ns, uniqueTitle) ==
    \E i \in 1..Len(ns) : toLowerCase(ns[i].title) = toLowerCase(uniqueTitle)

\* the loop that appends the counter until the title is free
RECURSIVE UniqueTitle(_, _, _, _)
UniqueTitle(ns, baseTitle, uniqueTitle, counter) ==
    IF TitleTaken(ns, uniqueTitle)
    THEN UniqueTitle(ns, baseTitle, Numbered(baseTitle, " ", counter), counter + 1)
    ELSE uniqueTitle

\* generateId: a random identifier, taken to differ from every identifier
\* given out before
generateId == "c" \o ToString(ops + 1)

\* [newNote, ...prev] with the parent expanded
Prepend(newNote, prev, targetParentId) ==
    [i \in 1..(Len(prev) + 1) |->
        IF i = 1 THEN newNote
        ELSE IF Truthy(targetParentId) /\ prev[i - 1].id = targetParentId
             THEN [prev[i - 1] EXCEPT !.expanded = TRUE]
             ELSE prev[i - 1]]

\* createNote after its depth loop has left targetParentId
CreateWith(title, parentId, targetParentId) ==
    LET baseTitle == IF Truthy(title) THEN title ELSE DefaultTitle
        uniqueTitle == UniqueTitle(notes, baseTitle, baseTitle, 1)
        newNote == [id |-> generateId, title |-> uniqueTitle, content |-> <<>>,
                    createdAt |-> now, updatedAt |-> now,
                    parentId |-> targetParentId, expanded |-> TRUE,
                    lastSavedTitle |-> uniqueTitle, isFavorite |-> FALSE]
    IN  /\ vaultHandle => Len(writes) < MaxInflight
        /\ notes' = Prepend(newNote, notes, targetParentId)
        /\ writes' = StartWrite(writes, vaultHandle, newNote)
        /\ issued' = Issue(issued, vaultHandle, newNote)
        /\ lastOp' = [op |-> "create", id |-> newNote.id, cancelled |-> {},
                      title |-> title, parentId |-> parentId]
        /\ ops' = ops + 1
        /\ merged' = NoBatch
        /\ UNCHANGED <<vaultHandle, vaultError, timers, disk, now, loads, linksRef,
                       ioFailed, burst, unwritten, codec,
                       nodesRef, dimensions, restore>>

\* createNote(title, parentId): title is Undefined when none is given
CreateNote(title, parentId) ==
    /\ CreateWith(title, parentId, TargetParentId(notes, parentId))
    /\ UNCHANGED walk

\* createNote(title, parentId) with a parent, statement by statement: the
\* depth loop is entered with currentId = parentId and depth = 0
DepthStart(title, parentId) ==
    /\ walk.pc = "idle"
    /\ Truthy(parentId)
    /\ vaultHandle => Len(writes) < MaxInflight
    /\ walk' = [pc |-> "depth", title |-> title, parentId |-> parentId,
                currentId |-> parentId, depth |-> 0, odd |-> FALSE]
    /\ lastOp' = [op |-> "depthStart", id |-> parentId, cancelled |-> {}]
    /\ UNCHANGED <<notes, vaultHandle, vaultError, timers, writes, disk, now, loads,
                   linksRef, ioFailed, ops, burst, unwritten, merged, codec,
                   nodesRef, dimensions, restore, issued>>

\* the loop goes on: the note of currentId exists and has a parent
DepthGoesOn ==
    /\ Truthy(walk.currentId)
    /\ HasNote(notes, walk.currentId)
    /\ Truthy(NoteOf(notes, walk.currentId).parentId)

\* one iteration: depth++, currentId = parent.parentId.  Depths above the
\* limit are not told apart; odd is the parity of the iterations made.
DepthStep ==
    /\ walk.pc = "depth"
    /\ DepthGoesOn
    /\ walk' = [walk EXCEPT !.currentId = NoteOf(notes, walk.currentId).parentId,
                            !.depth = IF @ >= MaxDepth THEN @ ELSE @ + 1,
                            !.odd = ~@]
    /\ UNCHANGED <<notes, vaultHandle, vaultError, timers, writes, disk, now, loads,
                   linksRef, ioFailed, lastOp, ops, burst, unwritten, merged, codec,
                   nodesRef, dimensions, restore, issued>>

\* the loop is left and the rest of createNote runs
DepthEnd ==
    /\ walk.pc = "depth"
    /\ ~DepthGoesOn
    /\ CreateWith(walk.title, walk.parentId,
                  IF DepthCapReached(walk.depth) THEN Null ELSE walk.parentId)
    /\ walk' = NoWalk

\* handleNavigate(title): the target is expanded through its ancestors, or
\* a note of that title is created
Navigate(title) ==
    /\ walk.pc = "idle"
    /\ IF FindByTitle(notes, title) = 0
       THEN CreateNote(title, Null)
       ELSE /\ walk' = IF Truthy(notes[FindByTitle(notes, title)].parentId)
                       THEN [pc |-> "expand",
                             currId |-> notes[FindByTitle(notes, title)].parentId,
                             parentsToExpand |-> {}, odd |-> FALSE]
                       ELSE walk
            /\ lastOp' = [op |-> "navigate", id |-> notes[FindByTitle(notes, title)].id,
                          cancelled |-> {}]
            /\ ops' = ops + 1
            /\ UNCHANGED <<notes, vaultHandle, vaultError, timers, writes, disk, now,
                           loads, linksRef, ioFailed, burst, unwritten, merged, codec,
                           nodesRef, dimensions, restore, issued>>

\* one iteration of the loop in the updater of handleNavigate
ExpandStep ==
    /\ walk.pc = "expand"
    /\ Truthy(walk.currId)
    /\ walk' = [walk EXCEPT !.parentsToExpand = @ \cup {walk.currId},
                            !.currId = IF HasNote(notes, walk.currId)
                                       THEN NoteOf(notes, walk.currId).parentId
                                       ELSE Null,
                            !.odd = ~@]
    /\ UNCHANGED <<notes, vaultHandle, vaultError, timers, writes, disk, now, loads,
                   linksRef, ioFailed, lastOp, ops, burst, unwritten, merged, codec,
                   nodesRef, dimensions, restore, issued>>

\* the loop is left: the collected ancestors are expanded
ExpandEnd ==
    /\ walk.pc = "expand"
    /\ ~Truthy(walk.currId)
    /\ notes' = [i \in 1..Len(notes) |->
                    IF notes[i].id \in walk.parentsToExpand /\ ~notes[i].expanded
                    THEN [notes[i] EXCEPT !.expanded = TRUE] ELSE notes[i]]
    /\ walk' = NoWalk
    /\ merged' = NoBatch
    /\ UNCHANGED <<vaultHandle, vaultError, timers, writes, disk, now, loads,
                   linksRef, ioFailed, lastOp, ops, burst, unwritten, codec,
                   nodesRef, dimensions, restore, issued>>

\* prev.filter(n => n.id !== id && n.parentId !== id)
FilterDeleted(prev, id) ==
    SelectSeq(prev, LAMBDA n : n.id # id /\ n.parentId # id)

\* deleteNote(id) with the confirmation accepted: removeEntry is called for
\* the file named after the title the note has now and completes later
DeleteNote(id) ==
    /\ vaultHandle => Len(writes) < MaxInflight
    /\ writes' = IF HasNote(notes, id) /\ vaultHandle
                 THEN Append(writes, [note |-> NoteOf(notes, id), pc |-> "removeEntry",
                                      removed |-> FALSE])
                 ELSE writes
    /\ notes' = FilterDeleted(notes, id)
    /\ lastOp' = [op |-> "delete", id |-> id, cancelled |-> {}]
    /\ ops' = ops + 1
    /\ merged' = NoBatch
    /\ UNCHANGED <<vaultHandle, vaultError, timers, disk, now, loads, linksRef,
                   ioFailed, burst, unwritten, codec,
                   nodesRef, dimensions, restore, walk, issued>>

\* vaultHandle.removeEntry(filename) takes effect; a missing entry rejects
\* the promise, which the catch logs
RemoveEntry(k) ==
    /\ k \in 1..Len(writes)
    /\ writes[k].pc = "removeEntry"
    /\ disk' = [disk EXCEPT ![getFilename(writes[k].note.title)] = NoFile]
    /\ writes' = RemoveAt(writes, k)
    /\ lastOp' = [op |-> "removeEntry", id |-> writes[k].note.id, cancelled |-> {}]
    /\ UNCHANGED <<notes, vaultHandle, vaultError, timers, now, loads, linksRef,
                   ioFailed, ops, burst, unwritten, merged, codec,
                   nodesRef, dimensions, restore, walk, issued>>

\* removeEntry rejects: the catch logs the error and nothing else happens
RemoveEntryFails(k) ==
    /\ k \in 1..Len(writes)
    /\ writes[k].pc = "removeEntry"
    /\ writes' = RemoveAt(writes, k)
    /\ lastOp' = [op |-> "removeEntryFails", id |-> writes[k].note.id, cancelled |-> {}]
    /\ UNCHANGED <<notes, vaultHandle, vaultError, timers, disk, now, loads, linksRef,
                   ioFailed, ops, burst, unwritten, merged, codec,
                   nodesRef, dimensions, restore, walk, issued>>

(***************************************************************************)
(* The save engine: two notes, a connected vault holding both              *)
(***************************************************************************)
MkNote(id, title, content, lst) ==
    [id |-> id, title |-> title, content |-> content, createdAt |-> 0, updatedAt |-> 0,
     parentId |-> Null, expanded |-> TRUE, lastSavedTitle |-> lst,
     isFavorite |-> FALSE]

\* the vault as the writes of the notes of ns leave it
DiskOf(ns) ==
    [f \in FileNames |->
        IF \E i \in 1..Len(ns) : getFilename(ns[i].title) = f
        THEN stringifyFrontmatter(
                ns[CHOOSE i \in 1..Len(ns) : getFilename(ns[i].title) = f])
        ELSE NoFile]

EmptyDisk == [f \in FileNames |-> NoFile]

InitBase ==
    /\ vaultError = "none"
    /\ timers = {}
    /\ writes = <<>>
    /\ now = 0
    /\ loads = <<>>
    /\ linksRef = <<>>
    /\ ioFailed = FALSE
    /\ lastOp = [op |-> "init", id |-> Null, cancelled |-> {}]
    /\ ops = 0
    /\ burst = [i \in NoteIds |-> NoBurst]
    /\ unwritten = [i \in NoteIds |-> FALSE]
    /\ merged = NoBatch
    /\ codec = NoCodec
    /\ nodesRef = <<>>
    /\ dimensions = [width |-> 0, height |-> 0]
    /\ walk = NoWalk
    /\ issued = {}

InitRest ==
    /\ InitBase
    /\ restore = NoRestore

Init ==
    /\ notes = <<MkNote("n1", "A", <<>>, "A"), MkNote("n2", "B", <<"A">>, "B")>>
    /\ vaultHandle \in BOOLEAN
    /\ disk = IF vaultHandle THEN DiskOf(notes) ELSE EmptyDisk
    /\ InitRest

\* The save engine: typing in both notes; commits, toggles and one-step
\* renames of the active note.
Next ==
    \/ \E id \in SaveIds, c \in ContentSet : EditContent(id, c)
    \/ \E id \in ActiveIds, c \in ContentSet : CommitContent(id, c)
    \/ \E id \in ActiveIds, t \in SaveTitles : EditTitle(id, t)
    \/ \E id \in ActiveIds : Blur(id)
    \/ \E id \in ActiveIds : ToggleExpanded(id)
    \/ \E id \in ActiveIds : ToggleFavorite(id)
    \/ \E t \in timers : TimerFire(t)
    \/ \E k \in 1..MaxInflight : RemoveOld(k)
    \/ \E k \in 1..MaxInflight : WriteFile(k)
    \/ \E k \in 1..MaxInflight : WriteDone(k)

Spec == Init /\ [][Next]_vars

\* Renames: title keystrokes and commits of the active note, typing in the
\* other note, and failing I/O.  The active note starts saved under the
\* title A, or under the empty title as untitled.md.
InitRename ==
    /\ \E t \in {"A", ""} :
            notes = <<MkNote("n1", t, <<>>, t), MkNote("n2", "B", <<"A">>, "B")>>
    /\ vaultHandle \in BOOLEAN
    /\ disk = IF vaultHandle THEN DiskOf(notes) ELSE EmptyDisk
    /\ InitRest

NextRename ==
    \/ \E id \in ActiveIds, t \in TitleSet : EditTitle(id, t)
    \/ \E id \in ActiveIds : Blur(id)
    \/ \E id \in SaveIds \ ActiveIds, c \in ContentSet : EditContent(id, c)
    \/ \E t \in timers : TimerFire(t)
    \/ \E k \in 1..MaxInflight : RemoveOld(k)
    \/ \E k \in 1..MaxInflight : RemoveOldFails(k)
    \/ \E k \in 1..MaxInflight : WriteFile(k)
    \/ \E k \in 1..MaxInflight : WriteFails(k)
    \/ \E k \in 1..MaxInflight : WriteDone(k)

SpecRename == InitRename /\ [][NextRename]_vars

\* The graph view over three notes without a vault: renames, typing and the
\* rebuild of the graph data.
GraphTitles == {"A", "a"}
GraphRandoms == {100}

InitGraph ==
    /\ notes = <<MkNote("n1", "A", <<>>, "A"), MkNote("n2", "B", <<"A">>, "B"),
                 MkNote("n3", "C", <<>>, "C")>>
    /\ vaultHandle = FALSE
    /\ disk = EmptyDisk
    /\ InitRest

NextGraph ==
    \/ \E id \in NoteIds \ ActiveIds, t \in GraphTitles : EditTitle(id, t)
    \/ \E id \in SaveIds, c \in ContentSet : EditContent(id, c)
    \/ DeriveGraph(GraphRandoms)

SpecGraph == InitGraph /\ [][NextGraph]_vars

\* Loads: a collection restored from localStorage, whose notes may lack
\* lastSavedTitle, and a vault holding files written for the same or for
\* other identifiers, or files without a metadata block.
PlainFile(c, t) == [fm |-> FALSE, absent |-> FALSE, body |-> c, lastModified |-> t]

\* a.md: absent, without metadata, written for n1, or written for another
\* identifier under the same title
FilesA ==
    {NoFile, PlainFile(<<>>, 0), stringifyFrontmatter(MkNote("n1", "A", <<>>, "A"))}
        \cup {stringifyFrontmatter([MkNote("x1", "A", <<"B">>, "A")
                                        EXCEPT !.updatedAt = t]) : t \in 0..MaxClock}

\* b.md: absent, written for n2, or a second file carrying the identifier n1
FilesB ==
    {NoFile, stringifyFrontmatter(MkNote("n2", "B", <<>>, "B")),
     stringifyFrontmatter(MkNote("n1", "B", <<"a">>, "B"))}

InitMerge ==
    /\ \E l1 \in {"A", Undefined} :
            notes \in {<<MkNote("n1", "A", <<>>, l1)>>,
                       <<MkNote("n1", "A", <<>>, l1), MkNote("n2", "B", <<"A">>, "B")>>}
    /\ vaultHandle = TRUE
    /\ \E fa \in FilesA, fb \in FilesB :
            disk = [f \in FileNames |->
                        IF f = "a.md" THEN fa ELSE IF f = "b.md" THEN fb ELSE NoFile]
    /\ InitRest

NextMerge ==
    \/ HandleRefreshVault
    \/ \E forceNew \in BOOLEAN : ConnectVault(forceNew)
    \/ \E k \in 1..MaxLoads : LoadReplace(k)
    \/ \E k \in 1..MaxLoads : LoadMerge(k)
    \/ LoadFails

SpecMerge == InitMerge /\ [][NextMerge]_vars

\* The codec: one note drawn from the notes a collection can hold; its text
\* blob is produced by stringifyFrontmatter and read back by parseFrontmatter.
CodecTitles == {"A", "true", "false", "null", " A", "A ", ""}

CodecNotes ==
    {[MkNote(id, t, c, t) EXCEPT !.parentId = p, !.isFavorite = f, !.updatedAt = u] :
        id \in {"n1"}, t \in CodecTitles, c \in {<<>>, <<"A">>},
        p \in {Null, "n2"}, f \in BOOLEAN, u \in 0..MaxClock}

Encode ==
    /\ codec.phase = "none"
    /\ codec' = [phase |-> "text", text |-> stringifyFrontmatter(notes[1])]
    /\ UNCHANGED <<notes, vaultHandle, vaultError, timers, writes, disk, now, loads,
                   linksRef, ioFailed, lastOp, ops, burst, unwritten, merged,
                   nodesRef, dimensions, restore, walk, issued>>

Decode ==
    /\ codec.phase = "text"
    /\ codec' = [phase |-> "parsed", text |-> codec.text,
                 parsed |-> parseFrontmatter(codec.text)]
    /\ UNCHANGED <<notes, vaultHandle, vaultError, timers, writes, disk, now, loads,
                   linksRef, ioFailed, lastOp, ops, burst, unwritten, merged,
                   nodesRef, dimensions, restore, walk, issued>>

InitCodec ==
    /\ \E n \in CodecNotes : notes = <<n>>
    /\ vaultHandle = FALSE
    /\ disk = EmptyDisk
    /\ InitRest

NextCodec ==
    \/ Encode
    \/ Decode

SpecCodec == InitCodec /\ [][NextCodec]_vars

\* The tree: notes created under one another and deleted, without a vault,
\* starting from one root note; every created root is a further root.
TreeTitles == {Undefined, "a"}

InitTree ==
    /\ notes = <<MkNote("n1", "A", <<>>, "A")>>
    /\ vaultHandle = FALSE
    /\ disk = EmptyDisk
    /\ InitRest

NextTree ==
    \/ /\ ops < MaxTreeOps
       /\ \E t \in TreeTitles, p \in IdsOf(notes) \cup {Null} : CreateNote(t, p)
    \/ /\ ops < MaxTreeOps
       /\ \E id \in IdsOf(notes) : DeleteNote(id)

SpecTree == InitTree /\ [][NextTree]_vars

\* Deletion with a vault: the two saved notes are renamed and edited, notes
\* are created under them and deleted, and the file operations complete in
\* any order.
InitDelete ==
    /\ notes = <<MkNote("n1", "A", <<>>, "A"), MkNote("n2", "B", <<"A">>, "B")>>
    /\ vaultHandle = TRUE
    /\ disk = DiskOf(notes)
    /\ InitRest

NextDelete ==
    \/ \E id \in ActiveIds, t \in SaveTitles : EditTitle(id, t)
    \/ \E id \in ActiveIds, c \in ContentSet : EditContent(id, c)
    \/ /\ ops < MaxOps
       /\ \E p \in IdsOf(notes) \cup {Null} : CreateNote(Undefined, p)
    \/ /\ ops < MaxOps
       /\ \E id \in IdsOf(notes) : DeleteNote(id)
    \/ \E t \in timers : TimerFire(t)
    \/ \E k \in 1..MaxInflight : RemoveOld(k)
    \/ \E k \in 1..MaxInflight : WriteFile(k)
    \/ \E k \in 1..MaxInflight : WriteDone(k)
    \/ \E k \in 1..MaxInflight : RemoveEntry(k)
    \/ \E k \in 1..MaxInflight : RemoveEntryFails(k)

SpecDelete == InitDelete /\ [][NextDelete]_vars

\* Renames in several steps: the title of n1 is typed over keystroke by
\* keystroke and committed, with or without a vault; n2 holds a marker for
\* n1 and a marker for n3 and is not edited by the user.
LinkTitles == {"A", "a", "B", "C", ""}
LinkBody == <<"A", "C">>
\* the notes the markers of n2 reference in the initial collection
LinkOrigin == <<"n1", "n3">>

InitLinks ==
    /\ notes = <<MkNote("n1", "A", <<>>, "A"), MkNote("n2", "B", LinkBody, "B"),
                 MkNote("n3", "C", <<>>, "C")>>
    /\ vaultHandle \in BOOLEAN
    /\ disk = IF vaultHandle THEN DiskOf(notes) ELSE EmptyDisk
    /\ InitRest

NextLinks ==
    \/ \E id \in ActiveIds, t \in LinkTitles : EditTitle(id, t)
    \/ \E id \in ActiveIds : Blur(id)
    \/ \E t \in timers : TimerFire(t)
    \/ \E k \in 1..MaxInflight : RemoveOld(k)
    \/ \E k \in 1..MaxInflight : WriteFile(k)
    \/ \E k \in 1..MaxInflight : WriteDone(k)

SpecLinks == InitLinks /\ [][NextLinks]_vars

\* Start-up with a stored handle whose permission is granted or must be
\* asked for again: the user edits, deletes and refreshes while
\* restoreHandle runs; the operations of the vault succeed with the
\* permission and reject without it.
Granted == restore.perm = "granted"

InitRestore ==
    /\ notes = <<MkNote("n1", "A", <<>>, "A"), MkNote("n2", "B", <<"A">>, "B")>>
    /\ vaultHandle = FALSE
    /\ disk = DiskOf(notes)
    /\ restore \in {[pc |-> "start", perm |-> p, verified |-> FALSE] :
                        p \in {"granted", "prompt"}}
    /\ InitBase

NextRestore ==
    \/ RestoreGet
    \/ RestoreGranted
    \/ RestoreDenied
    \/ \E id \in ActiveIds, c \in ContentSet : EditContent(id, c)
    \/ \E id \in ActiveIds : Blur(id)
    \/ /\ ops < MaxOps
       /\ \E id \in IdsOf(notes) : DeleteNote(id)
    \/ Granted /\ HandleRefreshVault
    \/ ~Granted /\ LoadFails
    \/ \E k \in 1..MaxLoads : LoadMerge(k)
    \/ \E t \in timers : TimerFire(t)
    \/ \E k \in 1..MaxInflight : Granted /\ WriteFile(k)
    \/ \E k \in 1..MaxInflight : ~Granted /\ WriteFails(k)
    \/ \E k \in 1..MaxInflight : Granted /\ RemoveEntry(k)
    \/ \E k \in 1..MaxInflight : ~Granted /\ RemoveEntryFails(k)

SpecRestore == InitRestore /\ [][NextRestore]_vars

\* Parent links decoded from the vault: two files whose parentId lines name
\* no note, the other note or the note itself are loaded in replace mode;
\* then notes are created under them and titles are navigated to.  The
\* loops run to their end before any other handler runs.
WalkParents == {Null, "n1", "n2"}
WalkTitles == {"A", "B", "C"}

WalkDisk(p1, p2) ==
    [f \in FileNames |->
        IF f = "a.md"
        THEN stringifyFrontmatter([MkNote("n1", "A", <<>>, "A") EXCEPT !.parentId = p1])
        ELSE IF f = "b.md"
        THEN stringifyFrontmatter([MkNote("n2", "B", <<>>, "B") EXCEPT !.parentId = p2])
        ELSE NoFile]

InitWalk ==
    /\ notes = <<INITIAL_NOTE>>
    /\ vaultHandle = TRUE
    /\ \E p1, p2 \in WalkParents : disk = WalkDisk(p1, p2)
    /\ InitRest

Idle == walk.pc = "idle"

WalkNext ==
    \/ DepthStep
    \/ DepthEnd
    \/ ExpandStep
    \/ ExpandEnd

NextWalk ==
    \/ Idle /\ ConnectVault(TRUE)
    \/ \E k \in 1..MaxLoads : Idle /\ LoadReplace(k)
    \/ /\ ops < MaxOps
       /\ \E p \in IdsOf(notes) : DepthStart(Undefined, p)
    \/ /\ ops < MaxOps
       /\ \E t \in WalkTitles : Navigate(t)
    \/ WalkNext

\* a loop under way runs on: JavaScript runs a handler to completion
SpecWalk == InitWalk /\ [][NextWalk]_vars /\ WF_vars(WalkNext)

\* The graph view over two linked notes without a vault: the view is mounted
\* with no size, the viewport is measured and resized, frames are animated,
\* and notes are created and deleted while the simulation runs.
PhysicsRandoms == {100, 101}
Viewports == {[width |-> 800, height |-> 600], [width |-> 400, height |-> 300]}

InitPhysics ==
    /\ notes = <<MkNote("n1", "A", <<>>, "A"), MkNote("n2", "B", <<"A">>, "B")>>
    /\ vaultHandle = FALSE
    /\ disk = EmptyDisk
    /\ InitRest

NextPhysics ==
    \/ DeriveGraph(PhysicsRandoms)
    \/ \E d \in Viewports : Resize(d.width, d.height, PhysicsRandoms)
    \/ /\ ops < MaxOps
       /\ Animate
    \/ /\ ops < MaxOps
       /\ CreateNote(Undefined, Null)
    \/ /\ ops < MaxOps
       /\ \E id \in IdsOf(notes) : DeleteNote(id)

SpecPhysics == InitPhysics /\ [][NextPhysics]_vars

(***************************************************************************)
(* Claims                                                                  *)
(***************************************************************************)
\* C1: for every note id at most one debounced write is pending: when
\* updateNote schedules a write for an id, directly or through the link
\* rewrite, the write scheduled earlier for that id has been cancelled.
C1_AtMostOnePendingWrite ==
    \A id \in NoteIds : Cardinality(PendingFor(id)) <= 1

\* a rename has rewritten a link of n2, cancelling the pending write of n2
\* and scheduling a new one
C1_Witness ==
    /\ lastOp.op = "title"
    /\ "n2" \in lastOp.cancelled
    /\ PendingFor("n2") # {}

\* C2: with a vault connected, a run of typed body changes of one note, each
\* made while the write of the previous one is still pending, leads to
\* exactly one write, carrying the body of the last change.
C2_DebounceCollapse ==
    \A id \in NoteIds :
        burst[id].len >= 2 =>
            /\ burst[id].writes <= 1
            /\ burst[id].ok
            /\ (PendingFor(id) = {} <=> burst[id].writes = 1)

\* three rapid body changes of a note, then its one write
C2_Witness ==
    \E id \in NoteIds :
        /\ burst[id].len >= 3
        /\ burst[id].writes = 1
        /\ lastOp.op = "fire"

\* C3: with a vault connected and no I/O failure, a typed body change stays
\* scheduled until a write of the note is issued; no later updateNote call
\* on the note leaves it unwritten.
C3_NoLostWrite ==
    \A id \in NoteIds : unwritten[id] => PendingFor(id) # {}

C5_ForcedSaveImmediate ==
    [][(/\ ops' = ops + 1
        /\ lastOp'.op \in {"blur", "commit", "favorite"}
        /\ vaultHandle
        /\ HasNote(notes, lastOp'.id)) =>
            /\ Len(writes') = Len(writes) + 1
            /\ writes'[Len(writes')].note = NoteOf(notes', lastOp'.id)
            /\ {t \in timers' : t.id = lastOp'.id} = {}]_vars

\* a forced save has cancelled the pending write of the note and issued its own
C5_Witness ==
    /\ lastOp.op \in {"blur", "commit", "favorite"}
    /\ lastOp.id \in lastOp.cancelled
    /\ writes # <<>>
    /\ writes[Len(writes)].note = NoteOf(notes, lastOp.id)
    /\ PendingFor(lastOp.id) = {}

\* C6: a write of a note whose lastSavedTitle differs from its title first
\* attempts to remove the file of the old title, then writes the file of
\* the new title, then sets lastSavedTitle to the written title.
C6_RemoveWriteRecord ==
    /\ [](\A k \in 1..Len(writes) :
            (/\ writes[k].note.lastSavedTitle # Undefined
             /\ writes[k].note.lastSavedTitle # writes[k].note.title
             /\ writes[k].pc # "remove") => writes[k].removed)
    /\ [][\A k \in 1..Len(writes) :
            (/\ lastOp'.op = "setNotes"
             /\ writes[k].pc = "setNotes"
             /\ writes' = RemoveAt(writes, k)) =>
                \A i \in 1..Len(notes') :
                    notes'[i].id = writes[k].note.id =>
                        notes'[i].lastSavedTitle = writes[k].note.title]_vars

\* the title of note i is the one its file records
Persisted(i) ==
    LET f == disk[getFilename(notes[i].title)]
    IN  ~f.absent /\ f.fm /\ f.id = notes[i].id /\ f.title = notes[i].title

\* C7: once every write has completed without failure, no file of the
\* vault holds a note under the name of a title the note no longer has.
C7_NoStaleResource ==
    (writes = <<>> /\ timers = {} /\ ~ioFailed) =>
        \A i \in 1..Len(notes), f \in FileNames :
            (Persisted(i) /\ ~disk[f].absent /\ disk[f].fm /\ disk[f].id = notes[i].id)
                => f = getFilename(notes[i].title)

\* a marker references a title when they are equal up to case
RefersTo(marker, title) == toLowerCase(marker) = toLowerCase(title)

\* C8: a title change from T to T2 rewrites, in every other note, each
\* marker that references T to [[T2]], and schedules a debounced write of
\* each note it rewrites.
C8_RenameRewritesLinks ==
    [][(ops' = ops + 1 /\ lastOp'.op = "title") =>
        LET id == lastOp'.id
            T == NoteOf(notes, id).title
            T2 == NoteOf(notes', id).title
        IN  \A i \in 1..Len(notes) :
                (/\ notes[i].id # id
                 /\ \E k \in 1..Len(notes[i].content) : RefersTo(notes[i].content[k], T))
                =>
                /\ notes'[i].content =
                        [k \in 1..Len(notes[i].content) |->
                            IF RefersTo(notes[i].content[k], T) THEN T2
                            ELSE notes[i].content[k]]
                /\ vaultHandle =>
                        \E t \in timers' : t.id = notes[i].id /\ t.note = notes'[i]]_vars

Occurrences(seq, x) == Cardinality({l \in DOMAIN seq : seq[l] = x})

Link(s, j) == [source |-> notes[s].id, target |-> notes[j].id]

\* C9 as stated: after the graph data is rebuilt, for every note S and every
\* other note whose title equals a marker of S up to case there is one link
\* from S to that note per such marker, and no link joins a note to itself.
C9_LinkToEveryMatch ==
    lastOp.op = "graph" =>
        /\ \A s, j \in 1..Len(notes) :
                notes[j].id # notes[s].id =>
                    Occurrences(linksRef, Link(s, j)) =
                        Cardinality({k \in 1..Len(notes[s].content) :
                                        RefersTo(notes[s].content[k], notes[j].title)})
        /\ \A l \in DOMAIN linksRef : linksRef[l].source # linksRef[l].target

\* note j is the first note, in collection order, whose title equals X up to case
IsFirstMatch(j, X) ==
    /\ RefersTo(X, notes[j].title)
    /\ \A i \in 1..(j - 1) : ~RefersTo(X, notes[i].title)

\* C9, amended: after the graph data is rebuilt, the links from S to another
\* note T are as many as the markers of S whose first match in collection
\* order is T; a marker whose first match is S itself, or that matches no
\* title, gives no link; no link joins a note to itself.
C9_LinkToFirstMatch ==
    lastOp.op = "graph" =>
        /\ \A s, j \in 1..Len(notes) :
                Occurrences(linksRef, Link(s, j)) =
                    IF notes[j].id = notes[s].id THEN 0
                    ELSE Cardinality({k \in 1..Len(notes[s].content) :
                                        IsFirstMatch(j, notes[s].content[k])})
        /\ \A l \in DOMAIN linksRef :
                /\ linksRef[l].source # linksRef[l].target
                /\ \E s, j \in 1..Len(notes) : linksRef[l] = Link(s, j)

\* the graph was rebuilt while a marker of a note matched two other notes:
\* the link goes to the first of them and not to the second
C9_Witness ==
    /\ lastOp.op = "graph"
    /\ \E s, j, j2 \in 1..Len(notes) :
        \E k \in 1..Len(notes[s].content) :
            /\ s # j /\ s # j2 /\ j < j2
            /\ IsFirstMatch(j, notes[s].content[k])
            /\ RefersTo(notes[s].content[k], notes[j2].title)
            /\ Occurrences(linksRef, Link(s, j)) = 1
            /\ Occurrences(linksRef, Link(s, j2)) = 0

\* C10: a merge of the batch that the previous merge applied, with no change
\* of the collection in between, leaves the collection as it is.
C10_MergeIdempotent ==
    [][(/\ lastOp'.op = "merge"
        /\ loads' # loads
        /\ merged # NoBatch
        /\ merged' = merged) => notes' = notes]_vars

\* a step that applies a merge-mode load
MergeStep == lastOp'.op = "merge" /\ loads' # loads

\* the in-memory note e is one the same-title heuristic applies to, for the
\* loaded note n and the collection old
Adoptable(e, n, old) ==
    /\ ~Truthy(e.parentId)
    /\ ~Truthy(e.lastSavedTitle)
    /\ n.title = e.title
    /\ n.id \notin IdsOf(old)

\* every note of new is a note of old, a loaded note of unknown id, or a
\* loaded note of unknown id under the id of the note of old it replaces;
\* and every note of old that is gone was replaced in that way
MergeAddsAndAdopts(old, batch, new) ==
    /\ \A m \in Range(new) :
          \/ m \in Range(old)
          \/ m \in Range(batch) /\ m.id \notin IdsOf(old)
          \/ \E e \in Range(old), n \in Range(batch) :
                Adoptable(e, n, old) /\ m = [n EXCEPT !.id = e.id]
    /\ \A e \in Range(old) :
          e \notin Range(new) =>
              \E n \in Range(batch) :
                Adoptable(e, n, old) /\ [n EXCEPT !.id = e.id] \in Range(new)

\* C11 as stated: a merge adds only loaded notes of unknown id, modifies
\* only notes the same-title heuristic applies to, and leaves every note
\* whose id is the id of a loaded note with all its fields.
C11_MergeFrame ==
    [][MergeStep =>
        /\ MergeAddsAndAdopts(notes, merged'[2], notes')
        /\ \A e \in Range(notes) :
              e.id \in IdsOf(merged'[2]) => e \in Range(notes')]_vars

\* C11, amended: a merge adds only loaded notes of unknown id and modifies
\* only notes the same-title heuristic applies to (no parent, no
\* lastSavedTitle, the title of a loaded note of unknown id), which take the
\* loaded note's fields under their own id; every other note keeps all its
\* fields.  A note the heuristic applies to is replaced even when another
\* loaded note carries its id.
C11_MergeFrameAdoption ==
    [][MergeStep =>
        /\ MergeAddsAndAdopts(notes, merged'[2], notes')
        /\ \A e \in Range(notes) :
              (e.id \in IdsOf(merged'[2])
                /\ ~\E n \in Range(merged'[2]) : Adoptable(e, n, notes))
                => e \in Range(notes')]_vars

\* a merge has kept a note whose id is in the batch although the loaded note
\* differs from it, and has added a loaded note of unknown id
C11_Witness ==
    /\ lastOp.op = "merge"
    /\ merged # NoBatch
    /\ \E n \in Range(merged[2]), e \in Range(notes) :
            n.id = e.id /\ n # e /\ n \notin Range(notes)
    /\ \E n \in Range(merged[2]) :
            n \in Range(notes) /\ n.id = "x1"

\* a step that applies a replace-mode load
ReplaceStep == lastOp'.op = "replace" /\ loads' # loads

\* the notes decoded from the files of the vault other than skipped
DecodedFrom(skipped) == {NoteFromFile(f, disk[f]) : f \in Present \ skipped}

\* C12: a replace-mode load leaves the collection equal to the notes decoded
\* from the vault, one per file read, none of the previous notes surviving,
\* or to the seed note alone when no note was decoded.
C12_ReplaceLoad ==
    [][ReplaceStep =>
        \E k \in 1..Len(loads) :
            /\ loads[k].replace
            /\ loads' = RemoveAt(loads, k)
            /\ IF DecodedFrom(loads[k].skipped) = {}
               THEN notes' = <<INITIAL_NOTE>>
               ELSE /\ Range(notes') = DecodedFrom(loads[k].skipped)
                    /\ Len(notes') = Cardinality(Present \ loads[k].skipped)]_vars

\* a replace-mode load has put two decoded notes in the place of the
\* collection, whose note n1 is gone
C12_Witness ==
    /\ lastOp.op = "replace"
    /\ Len(notes) = 2
    /\ "n1" \notin IdsOf(notes)
    /\ Range(notes) = DecodedFrom({})

\* C15: no two notes of the collection have the same id.
C15_UniqueIds ==
    \A i, j \in 1..Len(notes) : i # j => notes[i].id # notes[j].id

\* the loaded note n is in the collection new: under its id, or with all
\* its fields under the id of the note it replaced
Represented(n, new) ==
    \/ n.id \in IdsOf(new)
    \/ \E m \in Range(new) : [m EXCEPT !.id = n.id] = n

\* a step that ends the reads of a load
ReadStep == lastOp'.op \in {"refresh", "connect"} /\ Len(loads') = Len(loads) + 1

\* C18: a load whose reads fail for some files decodes every other file,
\* sets no error status, and the notes it decoded are merged.
C18_FailedReadSkipped ==
    [][/\ ReadStep =>
            LET l == loads'[Len(loads')]
            IN  /\ Range(l.newNotes) = DecodedFrom(l.skipped)
                /\ Len(l.newNotes) = Cardinality(Present \ l.skipped)
                /\ vaultError' \in {vaultError, "none"}
       /\ MergeStep =>
            /\ vaultError' = vaultError
            /\ \A n \in Range(merged'[2]) : Represented(n, notes')]_vars

\* a merge has added the note of one file while the read of another failed
C18_Witness ==
    /\ lastOp.op = "merge"
    /\ merged # NoBatch
    /\ merged[3] # {}
    /\ \E n \in Range(merged[2]) : n \in Range(notes) /\ n.id = "x1"
    /\ vaultError = "none"

\* C19: the collection changes only in the one step that applies a load,
\* after all its reads: the whole batch is then in the collection; a load
\* that fails before that step leaves the collection as it is.
C19_AtomicLoad ==
    [][/\ notes' # notes =>
            \E k \in 1..Len(loads) :
                /\ loads' = RemoveAt(loads, k)
                /\ Len(loads[k].newNotes) = Cardinality(Present \ loads[k].skipped)
                /\ IF loads[k].replace
                   THEN Range(notes') = Range(ReplaceResult(notes, loads[k].newNotes))
                   ELSE \A n \in Range(loads[k].newNotes) : Represented(n, notes')
       /\ lastOp'.op = "loadFails" => notes' = notes]_vars

\* a merge has put both notes of a batch of two in the collection
C19_Witness ==
    /\ lastOp.op = "merge"
    /\ merged # NoBatch
    /\ Len(merged[2]) = 2
    /\ merged[3] = {}
    /\ \A n \in Range(merged[2]) : n \in Range(notes)

\* C20: a failed write sets the error status, leaves the collection and the
\* timers as they are and issues no other write; a later title keystroke
\* still changes the title and a later forced save still issues its write.
C20_WriteFailure ==
    [][/\ (lastOp'.op = "writeFails" /\ writes' # writes) =>
            /\ vaultError' = "save"
            /\ notes' = notes
            /\ timers' = timers
            /\ Len(writes') = Len(writes) - 1
       /\ (vaultError = "save" /\ ops' = ops + 1 /\ lastOp'.op = "title") =>
            NoteOf(notes', lastOp'.id).title # NoteOf(notes, lastOp'.id).title
       /\ (vaultError = "save" /\ ops' = ops + 1 /\ lastOp'.op = "blur" /\ vaultHandle) =>
            /\ Len(writes') = Len(writes) + 1
            /\ writes'[Len(writes')].note = NoteOf(notes', lastOp'.id)]_vars

\* the write of a committed rename has failed: the note keeps its new title
\* and its old lastSavedTitle; a later commit has issued another write
C20_Witness ==
    /\ vaultError = "save"
    /\ lastOp.op = "blur"
    /\ NoteOf(notes, "n1").title # NoteOf(notes, "n1").lastSavedTitle
    /\ writes # <<>>
    /\ writes[Len(writes)].note = NoteOf(notes, "n1")

\* the JavaScript value of a boolean field
JsBool(b) == IF b THEN JsTrue ELSE JsFalse

\* C17: decoding the encoding of a note returns the id, title, createdAt,
\* updatedAt, parentId and isFavorite of the note and its body exactly, for
\* every title, the titles true, false and null and the titles with leading
\* or trailing spaces included.
C17_RoundTrip ==
    codec.phase = "parsed" =>
        /\ codec.parsed.meta.id = notes[1].id
        /\ codec.parsed.meta.title = notes[1].title
        /\ codec.parsed.meta.createdAt = notes[1].createdAt
        /\ codec.parsed.meta.updatedAt = notes[1].updatedAt
        /\ codec.parsed.meta.parentId = notes[1].parentId
        /\ codec.parsed.meta.isFavorite = JsBool(notes[1].isFavorite)
        /\ codec.parsed.content = notes[1].content

\* the parent links followed from a note until a note without a parent
RECURSIVE Hops(_, _)
Hops(ns, id) ==
    IF HasNote(ns, id) /\ Truthy(NoteOf(ns, id).parentId)
    THEN 1 + Hops(ns, NoteOf(ns, id).parentId)
    ELSE 0

\* a step that is a call of createNote, of deleteNote
CreateStep == lastOp'.op = "create" /\ ops' = ops + 1
DeleteStep == lastOp'.op = "delete" /\ ops' = ops + 1

\* C13: a confirmed deleteNote(id) removes from the collection exactly the
\* note with that id and the notes whose parentId is that id, every other
\* note staying unchanged, and its removal of the external resource leaves
\* no resource of that note in the vault.
C13_DeleteRemoves ==
    [][/\ DeleteStep =>
            /\ Range(notes') = {n \in Range(notes) :
                                    n.id # lastOp'.id /\ n.parentId # lastOp'.id}
            /\ Len(notes') = Cardinality({i \in 1..Len(notes) :
                                    notes[i].id # lastOp'.id
                                        /\ notes[i].parentId # lastOp'.id})
       /\ (lastOp'.op = "removeEntry" /\ writes' # writes) =>
            \A f \in FileNames : disk'[f].absent \/ disk'[f].id # lastOp'.id]_vars

\* C14: createNote under a parent that has 3 ancestor hops adds the note
\* with parentId null, and after any sequence of createNote and deleteNote
\* from root notes every note has at most 3 ancestor hops.
C14_DepthCap ==
    /\ [](\A i \in 1..Len(notes) : Hops(notes, notes[i].id) <= 3)
    /\ [][(/\ CreateStep
            /\ Truthy(lastOp'.parentId)
            /\ Hops(notes, lastOp'.parentId) = 3) =>
                /\ Len(notes') = Len(notes) + 1
                /\ notes'[1].id = lastOp'.id
                /\ notes'[1].parentId = Null]_vars

C14_Witness ==
    /\ lastOp.op = "create"
    /\ Truthy(lastOp.parentId)
    /\ Hops(notes, lastOp.parentId) = 3
    /\ notes[1].id = lastOp.id
    /\ notes[1].parentId = Null
    /\ \E i \in 1..Len(notes) : Hops(notes, notes[i].id) = 3

\* C16: createNote gives the new note a title that differs, letter case
\* set aside, from the title of every note of the collection: the
\* requested title, or 'Untitled Idea' when none is given, followed by the
\* first counter for which the title is free.
C16_UniqueTitle ==
    [][CreateStep =>
        LET baseTitle == IF Truthy(lastOp'.title) THEN lastOp'.title ELSE "Untitled Idea"
            new == notes'[1].title
            Taken(t) == \E i \in 1..Len(notes) :
                            toLowerCase(notes[i].title) = toLowerCase(t)
        IN  /\ notes'[1].id = lastOp'.id
            /\ ~Taken(new)
            /\ \E k \in 0..Len(notes) :
                    /\ new = Numbered(baseTitle, " ", k)
                    /\ \A j \in 0..(k - 1) : Taken(Numbered(baseTitle, " ", j))]_vars

C16_Witness ==
    /\ lastOp.op = "create"
    /\ lastOp.title = "a"
    /\ notes[1].id = lastOp.id
    /\ notes[1].title = "a 2"
    /\ \E i \in 1..Len(notes) : notes[i].title = "A"
    /\ \E i \in 1..Len(notes) : notes[i].title = "a 1"

\* a step that applies the setNotes updater queued by a completed write
WriteDoneStep == lastOp'.op = "setNotes" /\ writes' # writes

\* C22: the completion of a write acts on the collection as it is then and
\* changes only the lastSavedTitle of the note with the written id: edits
\* made while the write was in flight are kept and a note deleted in the
\* meantime is not added again.
C22_WriteDoneFrame ==
    [][WriteDoneStep =>
        /\ Len(notes') = Len(notes)
        /\ \A i \in 1..Len(notes) :
                IF notes[i].id = lastOp'.id
                THEN notes'[i] = [notes[i] EXCEPT !.lastSavedTitle = notes'[i].lastSavedTitle]
                ELSE notes'[i] = notes[i]]_vars

\* the write has completed for a note whose body was typed over while the
\* write was in flight: the file holds the older body, the note the newer
C22_Witness ==
    /\ lastOp.op = "setNotes"
    /\ HasNote(notes, lastOp.id)
    /\ NoteOf(notes, lastOp.id).lastSavedTitle = NoteOf(notes, lastOp.id).title
    /\ ~disk[getFilename(NoteOf(notes, lastOp.id).title)].absent
    /\ disk[getFilename(NoteOf(notes, lastOp.id).title)].id = lastOp.id
    /\ disk[getFilename(NoteOf(notes, lastOp.id).title)].body
            # NoteOf(notes, lastOp.id).content

\* C26: once deleteNote has removed a note no write for its id is executed:
\* no timer of a note that is not in the collection fires, and no file is
\* written for such a note.
C26_NoWriteAfterDelete ==
    [][/\ (lastOp'.op = "fire" /\ timers' # timers) => HasNote(notes, lastOp'.id)
       /\ (lastOp'.op = "write" /\ writes' # writes) => HasNote(notes, lastOp'.id)]_vars

\* the file f holds a note of the collection other than the note id
HoldsOther(f, id) ==
    /\ ~disk[f].absent
    /\ disk[f].id # id
    /\ HasNote(notes, disk[f].id)

\* C27: the removal of the old file and the write of the new file of a note
\* never change a file that holds a different note of the collection.
C27_WriteTouchesOwnFile ==
    [][(lastOp'.op \in {"remove", "write"} /\ writes' # writes) =>
            \A f \in FileNames : disk'[f] # disk[f] => ~HoldsOther(f, lastOp'.id)]_vars

\* no write of the note id is in flight
Settled(id) == \A k \in 1..Len(writes) : writes[k].note.id # id

\* C30: writes of one note take effect in the order issued: once no write
\* of the note is in flight, its file, unless another note took the name,
\* holds the snapshot of the write issued last, and lastSavedTitle is the
\* title of that snapshot.
C30_WritesInOrder ==
    \A e \in issued :
        (Settled(e.id) /\ ~ioFailed /\ HasNote(notes, e.id)) =>
            /\ ~HoldsOther(getFilename(e.note.title), e.id) =>
                    disk[getFilename(e.note.title)] = stringifyFrontmatter(e.note)
            /\ NoteOf(notes, e.id).lastSavedTitle = e.note.title

\* C29: after any sequence of title changes of n1 that ends in a non-empty
\* title T, the marker of n2 that referenced n1 before the sequence is
\* [[T]], and the marker that referenced n3 is as it was.
C29_LinksSurviveRename ==
    Truthy(NoteOf(notes, "n1").title) =>
        \A k \in 1..Len(LinkBody) :
            NoteOf(notes, "n2").content[k] =
                IF LinkOrigin[k] = "n1" THEN NoteOf(notes, "n1").title ELSE LinkBody[k]

\* C21: while the permission of the restored handle has not been verified
\* as granted, no load, no write and no removal is attempted through it.
C21_VerifiedBeforeUse ==
    [][~restore'.verified =>
            /\ Len(writes') <= Len(writes)
            /\ Len(loads') <= Len(loads)
            /\ ~(lastOp'.op = "loadFails" /\ ops' = ops + 1)]_vars

\* C28: the depth loop of createNote and the ancestor loop of
\* handleNavigate terminate for every collection a load can produce.
C28_WalksTerminate == (walk.pc # "idle") ~> (walk.pc = "idle")

\* every node moved by the forces of the array as it was when the step began
SynchronousStep(nodes, links, width, height) ==
    [k \in 1..Len(nodes) |-> Moved(nodes, links, width, height, nodes[k])]

AnimateStep == lastOp'.op = "animate" /\ nodesRef' # nodesRef

\* C23: within one physics step every node's new velocity and position are
\* computed from the positions all nodes had when the step began, so the
\* outcome does not depend on the order in which the nodes are processed.
C23_StepIsSynchronous ==
    [][AnimateStep =>
        nodesRef' = SynchronousStep(nodesRef, linksRef, dimensions.width,
                                    dimensions.height)]_vars

\* C24: a physics step divides by no zero: the position and the velocity of
\* every node stay defined numbers, also when the two ends of a link are at
\* the same place.
C24_NumbersStayDefined ==
    \A i \in 1..Len(nodesRef) : ~nodesRef[i].nan

GraphStep == lastOp'.op \in {"graph", "resize"}

\* C25: when the graph data is rebuilt, a node whose id was already in the
\* simulation keeps its position and its velocity, a node with a new id
\* starts at rest, and a resize of the viewport resets no position.
C25_RebuildKeepsNodes ==
    [][GraphStep =>
        \A i \in 1..Len(nodesRef') :
            LET existing == FindNode(nodesRef, nodesRef'[i].id)
            IN  IF existing # 0
                THEN /\ nodesRef'[i].x = nodesRef[existing].x
                     /\ nodesRef'[i].y = nodesRef[existing].y
                     /\ nodesRef'[i].vx = nodesRef[existing].vx
                     /\ nodesRef'[i].vy = nodesRef[existing].vy
                     /\ nodesRef'[i].nan = nodesRef[existing].nan
                ELSE nodesRef'[i].vx = 0 /\ nodesRef'[i].vy = 0]_vars

\* the graph was rebuilt after a frame and a creation: a moving node was
\* kept and a node with a new id was added
C25_Witness ==
    /\ lastOp.op \in {"graph", "resize"}
    /\ \E i \in 1..Len(nodesRef) :
            nodesRef[i].id \in NoteIds /\ ~nodesRef[i].nan /\ nodesRef[i].vx # 0
    /\ \E i \in 1..Len(nodesRef) :
            nodesRef[i].id \notin NoteIds /\ nodesRef[i].vx = 0

====
